---- MODULE Spec2Model ----
(***************************************************************************)
(* The machine-translation gateway of lemneya/immigration-app               *)
(* (services/mt-gateway): request validation, the Redis translation cache,  *)
(* the /translate, /translate/batch and /detect handlers and the provider   *)
(* back ends, as a state machine.                                           *)
(*                                                                         *)
(* Texts are strings; a character is a string of length one.               *)
(***************************************************************************)
EXTENDS Integers, Sequences, FiniteSets, TLC

(***************************************************************************)
(* Bounds of the model.                                                    *)
(***************************************************************************)
\* longest batch a client submits, the named batches below apart
MaxSegs == 1
\* environment events (cache outage, back-end anomaly, clock advance) per run
MaxEvents == 1

(***************************************************************************)
(* Program constants.                                                      *)
(***************************************************************************)
\* redis_client.setex(key, 3600, value)
CACHE_TTL == 3600
\* BatchTranslationRequest.segments: max_items
MAX_ITEMS == 500
\* segment / text max length
MAX_TEXT_LEN == 5000
\* hexdigest()[:16]
KEY_HEX_LEN == 16
\* /detect: len(text.strip()) < 3
MIN_DETECT_LEN == 3

(***************************************************************************)
(* What clients submit.                                                    *)
(***************************************************************************)
\* two texts with one normalized form, a blank one, and the scenario's cached text
Texts == {"aB", "a B", " "}
ScenarioText == "a"
LanguageCodes == {<<"es", "en">>, <<"en", "en">>}
\* the batch of the specification's scenario, and one over the size limit
ScenarioBatch == <<"a", "b", "a">>
\* a batch with a blank segment between two others
BlankBatch == <<"aB", " ", "a B">>
OversizedBatch == [i \in 1..(MAX_ITEMS + 1) |-> "a"]
Batches ==
    UNION {[1..n -> Texts] : n \in 1..MaxSegs} \cup
        {ScenarioBatch, BlankBatch, OversizedBatch}

\* language codes in their three-letter form and in upper case
CodeVariants == {<<"eng", "EN">>, <<"ENG", "en">>}

Bodies(endpoint) ==
    IF endpoint = "batch"
    THEN {[text |-> "", segments |-> b, src |-> l[1], tgt |-> l[2]] :
              b \in Batches, l \in LanguageCodes}
    ELSE IF endpoint = "translate"
    THEN {[text |-> t, segments |-> <<>>, src |-> l[1], tgt |-> l[2]] :
              t \in Texts \cup {ScenarioText}, l \in LanguageCodes} \cup
         {[text |-> ScenarioText, segments |-> <<>>, src |-> l[1], tgt |-> l[2]] :
              l \in CodeVariants}
    ELSE {[text |-> t, segments |-> <<>>, src |-> "", tgt |-> ""] : t \in Texts}

(***************************************************************************)
(* Strings: Python's str.strip and the regular expressions of               *)
(* utils.normalize_text.  The character classes are samples of Python's     *)
(* \s, [a-z], [A-Z], \d and [,.;:!?].                                       *)
(***************************************************************************)
Whitespace == {" ", "\t", "\n"}
LowerCase == {"a", "b", "c"}
UpperCase == {"A", "B", "C"}
Digits == {"0", "1"}
Punctuation == {",", ".", ";", ":", "!", "?"}

CharAt(s, i) == SubSeq(s, i, i)
From(s, i) == SubSeq(s, i, Len(s))

RECURSIVE lstrip(_)
lstrip(s) ==
    IF Len(s) > 0 /\ CharAt(s, 1) \in Whitespace THEN lstrip(From(s, 2)) ELSE s

RECURSIVE rstrip(_)
rstrip(s) ==
    IF Len(s) > 0 /\ CharAt(s, Len(s)) \in Whitespace
    THEN rstrip(SubSeq(s, 1, Len(s) - 1))
    ELSE s

\* str.strip()
strip(s) == rstrip(lstrip(s))

\* re.sub(r'\s+', ' ', s)
RECURSIVE sub_whitespace(_)
sub_whitespace(s) ==
    IF Len(s) = 0 THEN s
    ELSE IF CharAt(s, 1) \in Whitespace
         THEN " " \o sub_whitespace(lstrip(s))
         ELSE CharAt(s, 1) \o sub_whitespace(From(s, 2))

\* (variant: a space goes between any two characters of the two classes,
\* in either order)
RECURSIVE sub_split_loose(_, _, _)
sub_split_loose(s, X, Y) ==
    IF Len(s) = 0 THEN s
    ELSE IF Len(s) >= 2 /\ CharAt(s, 1) \in X \cup Y /\ CharAt(s, 2) \in X \cup Y
         THEN CharAt(s, 1) \o " " \o CharAt(s, 2) \o sub_split_loose(From(s, 3), X, Y)
         ELSE CharAt(s, 1) \o sub_split_loose(From(s, 2), X, Y)

\* re.sub(r'([X])([Y])', r'\1 \2', s) for two character classes X and Y
RECURSIVE sub_split(_, _, _)
sub_split(s, X, Y) ==
    IF Len(s) = 0 THEN s
    ELSE IF Len(s) >= 2 /\ CharAt(s, 1) \in X /\ CharAt(s, 2) \in Y
         THEN CharAt(s, 1) \o " " \o CharAt(s, 2) \o sub_split(From(s, 3), X, Y)
         ELSE CharAt(s, 1) \o sub_split(From(s, 2), X, Y)

\* re.sub(r'\s*([,.;:!?])\s*', r'\1 ', s)
RECURSIVE sub_punctuation(_)
sub_punctuation(s) ==
    IF Len(s) = 0 THEN s
    ELSE LET rest == lstrip(s)
         IN  IF Len(rest) > 0 /\ CharAt(rest, 1) \in Punctuation
             THEN CharAt(rest, 1) \o " " \o sub_punctuation(lstrip(From(rest, 2)))
             ELSE CharAt(s, 1) \o sub_punctuation(From(s, 2))

\* utils.normalize_text, step by step
normalize_text_steps(text) ==
    IF text = "" THEN text
    ELSE LET t1 == sub_whitespace(strip(text))
             t2 == sub_split(t1, LowerCase, UpperCase)
             t3 == sub_split(t2, Digits, UpperCase)
             t4 == sub_split(t3, LowerCase, Digits)
             t5 == sub_punctuation(t4)
         IN  sub_whitespace(strip(t5))

\* utils.normalize_text: the steps above, computed once for the texts that
\* clients submit
SubmittedTexts ==
    Texts \cup {ScenarioText} \cup
        UNION {{b[i] : i \in DOMAIN b} : b \in {ScenarioBatch, BlankBatch}}
normalized == [t \in {strip(u) : u \in SubmittedTexts} |-> normalize_text_steps(t)]

normalize_text(text) ==
    IF text \in DOMAIN normalized THEN normalized[text] ELSE normalize_text_steps(text)

\* format-service utils.normalize_text: the same substitutions in the same order
FormatService_normalize_text(text) ==
    IF text = "" THEN text
    ELSE LET t1 == sub_whitespace(strip(text))
             t2 == sub_split(t1, LowerCase, UpperCase)
             t3 == sub_split(t2, Digits, UpperCase)
             t4 == sub_split(t3, LowerCase, Digits)
             t5 == sub_punctuation(t4)
         IN  sub_whitespace(strip(t5))

\* str.lower(), on the Latin letters
UpperLetters == "ABCDEFGHIJKLMNOPQRSTUVWXYZ"
LowerLetters == "abcdefghijklmnopqrstuvwxyz"

lower_table ==
    [c \in {CharAt(UpperLetters, i) : i \in 1..Len(UpperLetters)} |->
        CharAt(LowerLetters, CHOOSE i \in 1..Len(UpperLetters) : CharAt(UpperLetters, i) = c)]

lower_char(c) == IF c \in DOMAIN lower_table THEN lower_table[c] ELSE c

RECURSIVE lower(_)
lower(s) == IF Len(s) = 0 THEN s ELSE lower_char(CharAt(s, 1)) \o lower(From(s, 2))

(***************************************************************************)
(* Python values.  An Optional[str] is <<>> (None) or <<s>>.               *)
(***************************************************************************)
None == <<>>
Some(s) == <<s>>
\* truth value of an Optional[str], as in "if cached:"
Truthy(v) == v # None /\ v[1] # ""

(***************************************************************************)
(* main.cache_key.  hashlib.md5 is tabulated on the contents the model     *)
(* can form; the digests are those of the real function.                   *)
(***************************************************************************)
md5_hexdigest(content) ==
    CASE content = "LIBRE:es:en:a" -> "b454c7cdcb225556b01de734aa0eb02a"
      [] content = "LIBRE:es:en:b" -> "459c24893579620ed6968ca5925d3c14"
      [] content = "LIBRE:es:en:aB" -> "1cf5a4ddb3860fc4e5fc14b513f5f76b"
      [] content = "LIBRE:es:en:a B" -> "40971f89497530839726ad3d3bbb92af"
      [] content = "LIBRE:en:en:a" -> "1a1de0ab856cd8770714932ea4f7dcab"
      [] content = "LIBRE:en:en:b" -> "53e728ba53373f204b90fcb5b082008a"
      [] content = "LIBRE:en:en:aB" -> "1455ecbbbc8d3636c5bd3aa1b57738ec"
      [] content = "LIBRE:en:en:a B" -> "22bca580c90c641fc35602d21a9a61da"
      [] content = "LIBRE:eng:en:a" -> "19c807148c9e8d45ab109a70f0211b55"
      [] content = "MARIAN:eng:en:a" -> "25cfa4559629b52a7166d2fd5d6ccd13"
      [] content = "NLLB:eng:en:a" -> "5f508953a79d263b622f6ef9f9c818c0"
      [] content = "MARIAN:es:en:a" -> "b04f9c69308e9a6f1a28c627c20b7c2e"
      [] content = "MARIAN:es:en:b" -> "25e5abc8c780c3e89331c8f2c81edf8c"
      [] content = "MARIAN:es:en:aB" -> "1acbf59d844774f142583c7a72b99007"
      [] content = "MARIAN:es:en:a B" -> "602fb1c7501ec4c0e7e5fdc591208531"
      [] content = "MARIAN:en:en:a" -> "b8bfef5eceb87a3ea963b161f2d7e401"
      [] content = "MARIAN:en:en:b" -> "1373d0f07d1767db7e581b699e6cf32f"
      [] content = "MARIAN:en:en:aB" -> "dbe8ce27b2b3febcac1d639c0e3104fa"
      [] content = "MARIAN:en:en:a B" -> "b3ab6895ab62c5dd568924cf12ada698"
      [] content = "NLLB:es:en:a" -> "88fa2af7b9561ec6077ce803a71fcaf8"
      [] content = "NLLB:es:en:b" -> "966fdab9d550c7978f7bc8d4d2fc95f6"
      [] content = "NLLB:es:en:aB" -> "09a4a55bb49c755f70844865d9cc42bc"
      [] content = "NLLB:es:en:a B" -> "0e3dd82e50357f1bdd86c53b571b37a0"
      [] content = "NLLB:en:en:a" -> "59f6e6afb1518d9b55c897bd9ef06da7"
      [] content = "NLLB:en:en:b" -> "e5af9b1c63ffd07d13ca84378b8c3c7a"
      [] content = "NLLB:en:en:aB" -> "4be07b0bc1fe3451060e01596b6a5d82"
      [] content = "NLLB:en:en:a B" -> "be3c8dda9acbf653c1daba3ed26929be"

cache_key(text, src, tgt, provider) ==
    LET content == provider \o ":" \o src \o ":" \o tgt \o ":" \o text
    IN  "mt:" \o SubSeq(md5_hexdigest(content), 1, KEY_HEX_LEN)

(***************************************************************************)
(* models.py: request validation (pydantic).                               *)
(***************************************************************************)
\* TranslationRequest.validate_language_codes, BatchTranslationRequest.validate_language_codes
validate_language_codes(v) ==
    IF v = "ara" THEN "ar"
    ELSE IF v = "spa" THEN "es"
    ELSE IF v = "fra" THEN "fr"
    ELSE IF v = "eng" THEN "en"
    ELSE lower(v)

\* Field(..., min_length=2, max_length=5) of src and tgt
language_code_ok(v) == Len(v) >= 2 /\ Len(v) <= 5

\* [s.strip() for s in v if s.strip()]
RECURSIVE filter_segments(_)
filter_segments(v) ==
    IF v = <<>> THEN <<>>
    ELSE IF strip(Head(v)) # ""
         THEN <<strip(Head(v))>> \o filter_segments(Tail(v))
         ELSE filter_segments(Tail(v))

\* BatchTranslationRequest.validate_segments: [ok, value]
validate_segments(v) ==
    LET filtered == filter_segments(v)
    IN  IF v = <<>> THEN [ok |-> FALSE, value |-> <<>>]
        ELSE IF filtered = <<>> THEN [ok |-> FALSE, value |-> <<>>]
        ELSE IF \E i \in 1..Len(filtered) : Len(filtered[i]) > MAX_TEXT_LEN
             THEN [ok |-> FALSE, value |-> <<>>]
        ELSE [ok |-> TRUE, value |-> filtered]

\* segments: List[str] = Field(..., min_items=1, max_items=500)
segments_field_ok(v) == Len(v) >= 1 /\ Len(v) <= MAX_ITEMS

\* TranslationRequest.validate_text, after Field(..., min_length=1, max_length=5000)
validate_text(v) ==
    IF Len(v) < 1 \/ Len(v) > MAX_TEXT_LEN THEN [ok |-> FALSE, value |-> ""]
    ELSE IF strip(v) = "" THEN [ok |-> FALSE, value |-> ""]
    ELSE [ok |-> TRUE, value |-> strip(v)]

(***************************************************************************)
(* providers.py: the language pairs each provider's initialize() builds.   *)
(***************************************************************************)
LibreTranslateProvider_supported_pairs ==
    LET source_langs == {"ar", "es", "fr"}
        target_langs == {"en"}
    IN  UNION {{<<src, tgt>> : tgt \in target_langs \cup (source_langs \ {src})} :
               src \in source_langs}

\* every model directory of model_pairs is taken to exist
MarianProvider_supported_pairs ==
    {<<"ar", "en">>, <<"es", "en">>, <<"fr", "en">>, <<"en", "es">>, <<"en", "fr">>}

\* (variant: every pair of the four languages, identity pairs included)
NLLBProvider_all_pairs ==
    LET languages == {"ar", "es", "fr", "en"}
    IN  languages \X languages

NLLBProvider_supported_pairs ==
    LET languages == {"ar", "es", "fr", "en"}
    IN  {p \in languages \X languages : p[1] # p[2]}

\* provider.get_supported_languages() of the provider MT_PROVIDER selects
get_supported_languages(provider) ==
    IF provider = "LIBRE" THEN LibreTranslateProvider_supported_pairs
    ELSE IF provider = "MARIAN" THEN MarianProvider_supported_pairs
    ELSE NLLBProvider_supported_pairs

\* (variant: every pair is accepted)
validate_language_pair_any(provider, src, tgt) == TRUE

\* utils.validate_language_pair
validate_language_pair(provider, src, tgt) ==
    \E pair \in get_supported_languages(provider) : pair[1] = src /\ pair[2] = tgt


(***************************************************************************)
(* providers.py: translate and translate_batch.  The back end (the         *)
(* LibreTranslate server, the CTranslate2 models) is the environment: for  *)
(* each text it answers with a translation ("ok"), with an empty string    *)
(* ("empty") or with an error or timeout ("error").  The translation of    *)
(* text t produced for request r is the text t under the mark of r, so     *)
(* that translations of different texts and of different calls differ.     *)
(***************************************************************************)
ItemOutcomes == {"ok", "empty", "error"}

backend_translation(text, o, r) ==
    IF o = "empty" THEN "" ELSE "<" \o ToString(r) \o ">" \o text

\* BaseMTProvider.translate of the three providers: [raised, value]
provider_translate(provider, text, o, r) ==
    IF o = "error" THEN [raised |-> TRUE, value |-> ""]
    ELSE [raised |-> FALSE, value |-> backend_translation(text, o, r)]

\* (variant: a failed item is left blank)
gather_fallback_blank(texts, results) ==
    [i \in 1..Len(texts) |-> IF results[i].raised THEN "" ELSE results[i].value]

\* providers.py:117-126: the original text where the item's call raised,
\* the call's result elsewhere
gather_fallback(texts, results) ==
    [i \in 1..Len(texts) |-> IF results[i].raised THEN texts[i] ELSE results[i].value]

\* LibreTranslateProvider.translate_batch: gather(..., return_exceptions=True),
\* the original text where the item's call raised
LibreTranslateProvider_translate_batch(texts, out, r) ==
    [raised |-> FALSE,
     value |-> gather_fallback(texts,
                  [i \in 1..Len(texts) |->
                      provider_translate("LIBRE", texts[i], out[i], r)])]

\* (variant: the items that failed are left out of the result)
RECURSIVE Inference_translate_batch_partial(_, _, _)
Inference_translate_batch_partial(texts, out, r) ==
    IF texts = <<>> THEN [raised |-> FALSE, value |-> <<>>]
    ELSE LET rest == Inference_translate_batch_partial(Tail(texts), Tail(out), r)
         IN  IF Head(out) = "error" THEN rest
             ELSE [rest EXCEPT !.value =
                      <<backend_translation(Head(texts), Head(out), r)>> \o @]

\* MarianProvider.translate_batch, NLLBProvider.translate_batch: one inference
\* call over the whole batch, any error is re-raised
Inference_translate_batch(texts, out, r) ==
    IF \E i \in 1..Len(texts) : out[i] = "error"
    THEN [raised |-> TRUE, value |-> <<>>]
    ELSE [raised |-> FALSE,
          value |-> [i \in 1..Len(texts) |-> backend_translation(texts[i], out[i], r)]]

provider_translate_batch(provider, texts, out, r) ==
    IF provider = "LIBRE" THEN LibreTranslateProvider_translate_batch(texts, out, r)
    ELSE Inference_translate_batch(texts, out, r)

(***************************************************************************)
(* The Redis cache: GET and SETEX.  An entry is [val, at, ttl, stamp]; it   *)
(* is live while fewer than ttl seconds have passed since it was written.  *)
(* stamp numbers the writes in the order Redis applied them.               *)
(***************************************************************************)
entry_live(e, t) == t < e.at + e.ttl

\* redis_client.get(key): None, or the stored string
redis_get(c, key, t) ==
    IF key \in DOMAIN c /\ entry_live(c[key], t) THEN Some(c[key].val) ELSE None

\* redis_client.setex(key, ttl, value)
redis_setex(c, key, ttl, value, t, n) ==
    [k \in DOMAIN c \cup {key} |->
        IF k = key THEN [val |-> value, at |-> t, ttl |-> ttl, stamp |-> n] ELSE c[k]]

(***************************************************************************)
(* main.py: pieces of the handlers.                                        *)
(***************************************************************************)
\* "except Exception as e: raise HTTPException(status_code=500, ...)" around each
\* handler body: the status the caller sees when the body raised HTTPException(status)
\* or any other exception (status 0)
except_Exception(status) == 500

\* (variant: the key of the normalized text)
cache_key_str_normalized(q, provider) ==
    cache_key(q.uncached_texts[1], q.request.src, q.request.tgt, provider)

\* main.py:189-193, 213: cache_key_str of /translate, made from request.text
\* before the lookup and used again by setex
cache_key_str(q, provider) ==
    cache_key(q.request.text, q.request.src, q.request.tgt, provider)

\* (variant: a store that leaves an existing entry alone)
cache_store_if_absent(c, key, value, t, n) ==
    IF key \in DOMAIN c /\ entry_live(c[key], t) THEN c
    ELSE redis_setex(c, key, CACHE_TTL, value, t, n)

\* main.py:213 and main.py:302-304: the store of a new translation
cache_store(c, key, value, t, n) == redis_setex(c, key, CACHE_TTL, value, t, n)

\* (variant: the hits in their order, then the new translations)
fill_translations_appending(translations, uncached_indices, translated_batch) ==
    SelectSeq(translations, LAMBDA v : v # None) \o
        [k \in 1..Len(translated_batch) |-> Some(translated_batch[k])]

\* main.py:293-294: for idx, translation in zip(uncached_indices, translated_batch):
\*                      translations[idx] = translation        (indices from 1 here)
fill_translations(translations, uncached_indices, translated_batch) ==
    LET m == IF Len(uncached_indices) < Len(translated_batch)
             THEN Len(uncached_indices) ELSE Len(translated_batch)
    IN  [j \in 1..Len(translations) |->
            IF \E k \in 1..m : uncached_indices[k] = j
            THEN LET k == CHOOSE k \in 1..m :
                              /\ uncached_indices[k] = j
                              /\ \A l \in 1..m : uncached_indices[l] = j => l <= k
                 IN  Some(translated_batch[k])
            ELSE translations[j]]

\* main.py:297-304: the background tasks, one per translated miss
cache_tasks(segments, src, tgt, provider, uncached_indices, translated_batch) ==
    LET m == IF Len(uncached_indices) < Len(translated_batch)
             THEN Len(uncached_indices) ELSE Len(translated_batch)
    IN  [k \in 1..m |->
            [key |-> cache_key(segments[uncached_indices[k]], src, tgt, provider),
             value |-> translated_batch[k]]]

\* main.py:276-278: a hit is appended at its position
record_hit(q, cached) ==
    [q EXCEPT !.translations = Append(@, cached)]

\* (variant: the miss is queued as submitted, not normalized)
record_miss_raw(q, i, text) ==
    [q EXCEPT !.translations = Append(@, None),
              !.uncached_indices = Append(@, i),
              !.uncached_texts = Append(@, text)]

\* main.py:280-283: a miss leaves a None at its position and joins the miss lists
record_miss(q, i, text) ==
    [q EXCEPT !.translations = Append(@, None),
              !.uncached_indices = Append(@, i),
              !.uncached_texts = Append(@, normalize_text(text))]

\* (variant: distinct texts are counted, not occurrences)
cached_count_distinct(segments, uncached_texts) ==
    Cardinality({segments[i] : i \in 1..Len(segments)}) -
        Cardinality({uncached_texts[i] : i \in 1..Len(uncached_texts)})

\* main.py:323: cached_count=len(request.segments) - len(uncached_texts)
cached_count(segments, uncached_texts) == Len(segments) - Len(uncached_texts)

Slots == {1, 2}
TickSteps == {CACHE_TTL - 1, CACHE_TTL}
Providers == {"LIBRE", "MARIAN", "NLLB"}

(***************************************************************************)
(* State.                                                                  *)
(***************************************************************************)
VARIABLES
    MT_PROVIDER,    \* os.getenv("MT_PROVIDER"), fixed at startup
    redis_client,   \* main.redis_client: "None" or "Redis"
    redisUp,        \* the Redis server answers
    now,            \* seconds since startup
    cache,          \* the contents of Redis: key -> entry
    req,            \* the requests in flight, one per slot
    events,         \* environment events so far
    prov,           \* a provider object and the translate_batch call made on it
    seg,            \* a segment_text call of the format service
    norm,           \* normalize_text applied to a text, and to its own result
    quality         \* a validate_translation_quality call

vars ==
    <<MT_PROVIDER, redis_client, redisUp, now, cache, req, events, prov, seg,
      norm, quality>>

NoBody == [text |-> "", segments |-> <<>>, src |-> "", tgt |-> ""]
NoResponse ==
    [status |-> 0, text |-> "", segments |-> <<>>, cached |-> FALSE,
     count |-> 0, cached_count |-> 0]

\* a slot before its request arrives.  looked, calls, wrote and raised record
\* what the handler did: its cache lookups, its provider calls, its cache
\* writes, and whether the provider call raised.
IdleRequest ==
    [pc |-> "idle", endpoint |-> "none", body |-> NoBody, request |-> NoBody,
     i |-> 0, translations |-> <<>>, uncached_indices |-> <<>>,
     uncached_texts |-> <<>>, translated_batch |-> <<>>, tasks |-> <<>>,
     response |-> NoResponse,
     looked |-> <<>>, calls |-> <<>>, wrote |-> <<>>, raised |-> FALSE]

\* a provider object on which no call has been made.  results holds what the
\* per-item calls returned, finished the order in which they completed.
IdleProvider(initialized) ==
    [initialized |-> initialized, pc |-> "idle", texts |-> <<>>, pending |-> {},
     results |-> <<>>, finished |-> <<>>, raised |-> FALSE, value |-> <<>>]

\* before segment_text is called.  sentences, constrained and merged are the
\* lists segment_text holds after the rule, after the length constraints and
\* after the merge pass; result is what it returns.
IdleSegmenter ==
    [pc |-> "idle", text |-> "", options |-> None, sentences |-> <<>>,
     constrained |-> <<>>, merged |-> <<>>, result |-> <<>>]

\* before normalize_text is called: once is normalize_text(text), twice is
\* normalize_text(once)
IdleNormalizer ==
    [pc |-> "idle", service |-> "", text |-> "", once |-> "", twice |-> ""]

\* before validate_translation_quality is called
IdleQualityCheck ==
    [pc |-> "idle", source |-> "", translation |-> "", issues |-> <<>>,
     quality_score |-> 0]

\* lifespan(): Redis is pinged once; a failure leaves redis_client None
Init ==
    /\ MT_PROVIDER \in Providers
    /\ redis_client \in {"None", "Redis"}
    /\ redisUp = (redis_client = "Redis")
    /\ now = 0
    /\ cache = <<>>
    /\ req = [r \in Slots |-> IdleRequest]
    /\ events = 0
    /\ prov = IdleProvider(TRUE)
    /\ seg = IdleSegmenter
    /\ norm = IdleNormalizer
    /\ quality = IdleQualityCheck

Failed(q, status) ==
    [q EXCEPT !.pc = "done", !.response = [NoResponse EXCEPT !.status = status]]

\* the next stamp: writes so far, over all requests, plus one
NextStamp == Len(req[1].wrote) + Len(req[2].wrote) + 1

\* what a lookup saw: the key, what Redis held for it, and the handler's verdict
Lookup(text, key, cached) ==
    [text |-> text, key |-> key,
     written |-> key \in DOMAIN cache,
     age |-> IF key \in DOMAIN cache THEN now - cache[key].at ELSE 0,
     stored |-> IF key \in DOMAIN cache THEN cache[key].val ELSE "",
     hit |-> Truthy(cached),
     val |-> IF Truthy(cached) THEN cached[1] ELSE ""]

\* outcomes of a back-end call over n texts that fit the event budget
Outcomes(n) ==
    {out \in [1..n -> ItemOutcomes] :
        Cardinality({i \in 1..n : out[i] # "ok"}) <= MaxEvents - events}
Anomalies(out) == Cardinality({i \in DOMAIN out : out[i] # "ok"})

(***************************************************************************)
(* POST /translate (main.translate_text).                                  *)
(***************************************************************************)
\* the request arrives: pydantic validation, the language pair, the cache
\* lookup; on a miss the provider is called and the handler waits for it
translate_text_receive(r, body) ==
    /\ req[r].pc = "idle"
    /\ r > 1 => req[r - 1].pc # "idle"
    /\ LET text == validate_text(body.text)
           q0 == [req[r] EXCEPT !.endpoint = "translate", !.body = body]
       IN  IF ~(text.ok /\ language_code_ok(body.src) /\ language_code_ok(body.tgt))
           THEN req' = [req EXCEPT ![r] = Failed(q0, 422)]
           ELSE
           LET request == [text |-> text.value, segments |-> <<>>,
                           src |-> validate_language_codes(body.src),
                           tgt |-> validate_language_codes(body.tgt)]
               q1 == [q0 EXCEPT !.request = request]
               key == cache_key(request.text, request.src, request.tgt, MT_PROVIDER)
               cached == redis_get(cache, key, now)
               normalized_text == normalize_text(request.text)
               waiting(q) == [q EXCEPT !.pc = "await",
                                       !.uncached_texts = <<normalized_text>>,
                                       !.calls = <<<<normalized_text>>>>]
           IN  IF ~validate_language_pair(MT_PROVIDER, request.src, request.tgt)
               THEN req' = [req EXCEPT ![r] = Failed(q1, except_Exception(400))]
               ELSE IF redis_client = "Redis"
               THEN IF ~redisUp
                    THEN req' = [req EXCEPT ![r] = Failed(q1, except_Exception(0))]
                    ELSE LET q2 == [q1 EXCEPT !.looked =
                                       <<Lookup(request.text, key, cached)>>]
                         IN  IF Truthy(cached)
                             THEN req' = [req EXCEPT ![r] =
                                     [q2 EXCEPT !.pc = "done",
                                                !.response =
                                                   [NoResponse EXCEPT
                                                       !.status = 200,
                                                       !.text = cached[1],
                                                       !.cached = TRUE]]]
                             ELSE req' = [req EXCEPT ![r] = waiting(q2)]
               ELSE req' = [req EXCEPT ![r] = waiting(q1)]
    /\ UNCHANGED <<MT_PROVIDER, redis_client, redisUp, now, cache, events, prov, seg, norm, quality>>

\* provider.translate returns or raises; the result is stored and returned
translate_text_return(r) ==
    /\ req[r].pc = "await"
    /\ req[r].endpoint = "translate"
    /\ \E out \in Outcomes(1) :
         LET q == req[r]
             result == provider_translate(MT_PROVIDER, q.uncached_texts[1], out[1], r)
             key == cache_key_str(q, MT_PROVIDER)
             answered == [q EXCEPT !.pc = "done",
                                   !.response = [NoResponse EXCEPT
                                                    !.status = 200,
                                                    !.text = result.value,
                                                    !.cached = FALSE]]
             done == [answered EXCEPT !.translated_batch = <<result.value>>]
         IN  /\ events' = events + Anomalies(out)
             /\ IF result.raised
                THEN /\ req' = [req EXCEPT ![r] =
                           [Failed(q, except_Exception(0)) EXCEPT !.raised = TRUE]]
                     /\ cache' = cache
                ELSE IF redis_client = "Redis"
                THEN IF ~redisUp
                     THEN /\ req' = [req EXCEPT ![r] = Failed(q, except_Exception(0))]
                          /\ cache' = cache
                     ELSE /\ cache' = cache_store(cache, key, result.value, now, NextStamp)
                          /\ req' = [req EXCEPT ![r] =
                                [done EXCEPT !.wrote =
                                    <<[key |-> key, value |-> result.value,
                                       stamp |-> NextStamp]>>]]
                ELSE /\ req' = [req EXCEPT ![r] = done]
                     /\ cache' = cache
    /\ UNCHANGED <<MT_PROVIDER, redis_client, redisUp, now, prov, seg, norm, quality>>

(***************************************************************************)
(* POST /translate/batch (main.translate_batch).                           *)
(***************************************************************************)
\* the request arrives: pydantic validation, the language pair, the size check
translate_batch_receive(r, body) ==
    /\ req[r].pc = "idle"
    /\ r > 1 => req[r - 1].pc # "idle"
    /\ LET segments == validate_segments(body.segments)
           q0 == [req[r] EXCEPT !.endpoint = "batch", !.body = body]
       IN  IF ~(/\ segments_field_ok(body.segments)
                /\ segments.ok
                /\ language_code_ok(body.src)
                /\ language_code_ok(body.tgt))
           THEN req' = [req EXCEPT ![r] = Failed(q0, 422)]
           ELSE
           LET request == [text |-> "", segments |-> segments.value,
                           src |-> validate_language_codes(body.src),
                           tgt |-> validate_language_codes(body.tgt)]
               q1 == [q0 EXCEPT !.request = request]
           IN  IF ~validate_language_pair(MT_PROVIDER, request.src, request.tgt)
               THEN req' = [req EXCEPT ![r] = Failed(q1, except_Exception(400))]
               ELSE IF Len(request.segments) > MAX_ITEMS
               THEN req' = [req EXCEPT ![r] = Failed(q1, except_Exception(400))]
               ELSE req' = [req EXCEPT ![r] = [q1 EXCEPT !.pc = "lookup", !.i = 1]]
    /\ UNCHANGED <<MT_PROVIDER, redis_client, redisUp, now, cache, events, prov, seg, norm, quality>>

\* one round of "for i, text in enumerate(request.segments)"; after the last
\* round the provider is called with the misses, or the response is returned
translate_batch_lookup(r) ==
    /\ req[r].pc = "lookup"
    /\ LET q == req[r]
           text == q.request.segments[q.i]
           key == cache_key(text, q.request.src, q.request.tgt, MT_PROVIDER)
           cached == redis_get(cache, key, now)
           hit == redis_client = "Redis" /\ Truthy(cached)
           q0 == [q EXCEPT !.looked = IF redis_client = "Redis"
                                      THEN Append(@, Lookup(text, key, cached))
                                      ELSE @,
                           !.i = @ + 1]
           q1 == IF hit THEN record_hit(q0, cached) ELSE record_miss(q0, q.i, text)
       IN  IF redis_client = "Redis" /\ ~redisUp
           THEN req' = [req EXCEPT ![r] = Failed(q, except_Exception(0))]
           ELSE IF q.i < Len(q.request.segments)
           THEN req' = [req EXCEPT ![r] = q1]
           ELSE IF q1.uncached_texts # <<>>
           THEN req' = [req EXCEPT ![r] =
                   [q1 EXCEPT !.pc = "await", !.calls = <<q1.uncached_texts>>]]
           ELSE req' = [req EXCEPT ![r] =
                   [q1 EXCEPT !.pc = "done",
                              !.response =
                                 [NoResponse EXCEPT
                                    !.status = 200,
                                    !.segments = [j \in 1..Len(q1.translations) |->
                                                     q1.translations[j][1]],
                                    !.count = Len(q1.translations),
                                    !.cached_count =
                                       cached_count(q1.request.segments,
                                                    q1.uncached_texts)]]]
    /\ UNCHANGED <<MT_PROVIDER, redis_client, redisUp, now, cache, events, prov, seg, norm, quality>>

\* provider.translate_batch returns or raises; the misses are filled in, the
\* cache writes are scheduled and the response is returned
translate_batch_return(r) ==
    /\ req[r].pc = "await"
    /\ req[r].endpoint = "batch"
    /\ \E out \in Outcomes(Len(req[r].uncached_texts)) :
         LET q == req[r]
             result == provider_translate_batch(MT_PROVIDER, q.uncached_texts, out, r)
             translations == fill_translations(q.translations, q.uncached_indices,
                                               result.value)
             tasks == IF redis_client = "Redis"
                      THEN cache_tasks(q.request.segments, q.request.src,
                                       q.request.tgt, MT_PROVIDER,
                                       q.uncached_indices, result.value)
                      ELSE <<>>
         IN  /\ events' = events + Anomalies(out)
             /\ IF result.raised
                THEN req' = [req EXCEPT ![r] =
                        [Failed(q, except_Exception(0)) EXCEPT !.raised = TRUE]]
                ELSE IF \E j \in 1..Len(translations) : translations[j] = None
                THEN \* BatchTranslationResponse rejects a None segment
                     req' = [req EXCEPT ![r] =
                        [Failed(q, except_Exception(0)) EXCEPT
                            !.translated_batch = result.value,
                            !.translations = translations]]
                ELSE req' = [req EXCEPT ![r] =
                        [q EXCEPT !.pc = IF tasks = <<>> THEN "done" ELSE "background",
                                  !.translated_batch = result.value,
                                  !.translations = translations,
                                  !.tasks = tasks,
                                  !.response =
                                     [NoResponse EXCEPT
                                        !.status = 200,
                                        !.segments = [j \in 1..Len(translations) |->
                                                         translations[j][1]],
                                        !.count = Len(translations),
                                        !.cached_count =
                                           cached_count(q.request.segments,
                                                        q.uncached_texts)]]]
    /\ UNCHANGED <<MT_PROVIDER, redis_client, redisUp, now, cache, prov, seg, norm, quality>>

\* (variant: the write is awaited inside the handler, its error fails the request)
task_raised_in_handler(q) == Failed(q, except_Exception(0))

\* main.py:302-304: a task added with background_tasks.add_task raises after
\* the response was sent; the tasks behind it are not run
task_raised(q) == [q EXCEPT !.pc = "done", !.tasks = <<>>]

\* the next background task of a batch runs after the response: one setex.
\* A task that raises ends the run of the remaining tasks.
background_task(r) ==
    /\ req[r].pc = "background"
    /\ LET q == req[r]
           task == Head(q.tasks)
       IN  IF ~redisUp
           THEN /\ req' = [req EXCEPT ![r] = task_raised(q)]
                /\ cache' = cache
           ELSE /\ cache' = cache_store(cache, task.key, task.value, now, NextStamp)
                /\ req' = [req EXCEPT ![r] =
                      [q EXCEPT !.tasks = Tail(@),
                                !.pc = IF Len(q.tasks) = 1 THEN "done" ELSE @,
                                !.wrote = Append(@, [key |-> task.key,
                                                     value |-> task.value,
                                                     stamp |-> NextStamp])]]
    /\ UNCHANGED <<MT_PROVIDER, redis_client, redisUp, now, events, prov, seg, norm, quality>>

(***************************************************************************)
(* GET /detect (main.detect_text_language).                                *)
(***************************************************************************)
detect_text_language(r, body) ==
    /\ req[r].pc = "idle"
    /\ r > 1 => req[r - 1].pc # "idle"
    /\ LET q0 == [req[r] EXCEPT !.endpoint = "detect", !.body = body,
                                !.request = body]
       IN  IF Len(strip(body.text)) < MIN_DETECT_LEN
           THEN req' = [req EXCEPT ![r] = Failed(q0, except_Exception(400))]
           ELSE req' = [req EXCEPT ![r] =
                   [q0 EXCEPT !.pc = "done",
                              !.response = [NoResponse EXCEPT !.status = 200,
                                                              !.text = body.text]]]
    /\ UNCHANGED <<MT_PROVIDER, redis_client, redisUp, now, cache, events, prov, seg, norm, quality>>

(***************************************************************************)
(* The environment.                                                        *)
(***************************************************************************)
\* the connection to Redis is lost
RedisDown ==
    /\ redis_client = "Redis"
    /\ redisUp
    /\ events < MaxEvents
    /\ redisUp' = FALSE
    /\ events' = events + 1
    /\ UNCHANGED <<MT_PROVIDER, redis_client, now, cache, req, prov, seg, norm, quality>>

\* time passes; before the first write there is nothing for it to act on
Tick(d) ==
    /\ events < MaxEvents
    /\ cache # <<>>
    /\ now' = now + d
    /\ events' = events + 1
    /\ UNCHANGED <<MT_PROVIDER, redis_client, redisUp, cache, req, prov, seg, norm, quality>>

Next ==
    \/ \E r \in Slots : \E body \in Bodies("translate") : translate_text_receive(r, body)
    \/ \E r \in Slots : translate_text_return(r)
    \/ \E r \in Slots : \E body \in Bodies("batch") : translate_batch_receive(r, body)
    \/ \E r \in Slots : translate_batch_lookup(r)
    \/ \E r \in Slots : translate_batch_return(r)
    \/ \E r \in Slots : background_task(r)
    \/ \E r \in Slots : \E body \in Bodies("detect") : detect_text_language(r, body)
    \/ RedisDown
    \/ \E d \in TickSteps : Tick(d)

Spec == Init /\ [][Next]_vars

(***************************************************************************)
(* providers.py: one translate_batch call on a provider object, step by    *)
(* step.  LibreTranslate creates one translate coroutine per text and      *)
(* gathers them: the calls complete one at a time, in any order.  Marian   *)
(* and NLLB run one blocking inference over the whole batch.               *)
(***************************************************************************)
MaxTexts == 3
ProviderTexts == {"a", "b"}
ProviderBatches == UNION {[1..n -> ProviderTexts] : n \in 1..MaxTexts}

\* "if not self.initialized: raise RuntimeError" in front of every translate
BaseMTProvider_translate(initialized, provider, text, o) ==
    IF ~initialized THEN [raised |-> TRUE, value |-> ""]
    ELSE provider_translate(provider, text, o, 0)

\* (variant: the results in the order in which the calls completed)
gather_as_completed(results, finished) ==
    [k \in 1..Len(finished) |-> results[finished[k]]]

\* asyncio.gather(*tasks, return_exceptions=True): the results in the order
\* of the awaitables, whatever the order of completion
gather(results, finished) == [i \in 1..Len(finished) |-> results[i]]

IdleProviderState ==
    /\ redis_client = "None"
    /\ redisUp = FALSE
    /\ now = 0
    /\ cache = <<>>
    /\ req = [r \in Slots |-> IdleRequest]
    /\ events = 0

ProviderInit ==
    /\ MT_PROVIDER \in Providers
    /\ IdleProviderState
    /\ prov \in {IdleProvider(initialized) : initialized \in BOOLEAN}
    /\ seg = IdleSegmenter
    /\ norm = IdleNormalizer
    /\ quality = IdleQualityCheck

gateway_vars == <<MT_PROVIDER, redis_client, redisUp, now, cache, req, events>>

\* providers.py:114-115: one coroutine per text, all handed to gather
LibreTranslateProvider_translate_batch_call(texts) ==
    /\ MT_PROVIDER = "LIBRE"
    /\ prov.pc = "idle"
    /\ prov' = [prov EXCEPT !.pc = "gather", !.texts = texts,
                            !.pending = 1..Len(texts)]
    /\ UNCHANGED <<gateway_vars, seg, norm, quality>>

\* providers.py:88-109: the translate call of item i completes
LibreTranslateProvider_translate(i, o) ==
    /\ prov.pc = "gather"
    /\ i \in prov.pending
    /\ LET result == BaseMTProvider_translate(prov.initialized, "LIBRE",
                                              prov.texts[i], o)
       IN  prov' = [prov EXCEPT
                      !.pending = @ \ {i},
                      !.finished = Append(@, i),
                      !.results = [j \in DOMAIN prov.results \cup {i} |->
                                      IF j = i THEN result ELSE prov.results[j]]]
    /\ UNCHANGED <<gateway_vars, seg, norm, quality>>

\* providers.py:115-126: gather returns when every call has completed
LibreTranslateProvider_translate_batch_return ==
    /\ prov.pc = "gather"
    /\ prov.pending = {}
    /\ prov' = [prov EXCEPT
                   !.pc = "returned",
                   !.value = gather_fallback(prov.texts,
                                             gather(prov.results, prov.finished))]
    /\ UNCHANGED <<gateway_vars, seg, norm, quality>>

\* providers.py:226-260, 359-400: the whole batch in one inference call
InferenceProvider_translate_batch(provider, texts) ==
    /\ MT_PROVIDER = provider
    /\ prov.pc = "idle"
    /\ \E out \in [1..Len(texts) -> ItemOutcomes] :
         LET result == IF ~prov.initialized
                       THEN [raised |-> TRUE, value |-> <<>>]
                       ELSE Inference_translate_batch(texts, out, 0)
         IN  prov' = [prov EXCEPT
                        !.pc = IF result.raised THEN "raised" ELSE "returned",
                        !.texts = texts,
                        !.raised = result.raised,
                        !.value = result.value]
    /\ UNCHANGED <<gateway_vars, seg, norm, quality>>

MarianProvider_translate_batch(texts) == InferenceProvider_translate_batch("MARIAN", texts)
NLLBProvider_translate_batch(texts) == InferenceProvider_translate_batch("NLLB", texts)

ProviderNext ==
    \/ \E texts \in ProviderBatches : LibreTranslateProvider_translate_batch_call(texts)
    \/ \E i \in 1..MaxTexts : \E o \in ItemOutcomes : LibreTranslateProvider_translate(i, o)
    \/ LibreTranslateProvider_translate_batch_return
    \/ \E texts \in ProviderBatches : MarianProvider_translate_batch(texts)
    \/ \E texts \in ProviderBatches : NLLBProvider_translate_batch(texts)

ProviderSpec == ProviderInit /\ [][ProviderNext]_vars

(***************************************************************************)
(* format-service utils.py: segmentation.  Strings are Python str; the     *)
(* regular expression of segment_by_sentences is computed by scanning.     *)
(***************************************************************************)
\* the characters of [.!?]
Terminators == {".", "!", "?"}

\* the last index of the run of characters of class C that starts at i
\* (i - 1 when the character at i is not in C)
RunEnd(s, i, C) ==
    (CHOOSE j \in i..(Len(s) + 1) :
        /\ j = Len(s) + 1 \/ CharAt(s, j) \notin C
        /\ \A k \in i..(j - 1) : CharAt(s, k) \in C) - 1

\* the last index of the run of non-whitespace characters that starts at i
WordEnd(s, i) ==
    (CHOOSE j \in i..(Len(s) + 1) :
        /\ j = Len(s) + 1 \/ CharAt(s, j) \in Whitespace
        /\ \A k \in i..(j - 1) : CharAt(s, k) \notin Whitespace) - 1

\* [.!?]+\s+ matches at i: a run of terminators from i, whitespace after it
sentence_ending_at(s, i) ==
    /\ CharAt(s, i) \in Terminators
    /\ LET k == RunEnd(s, i, Terminators)
       IN  k < Len(s) /\ CharAt(s, k + 1) \in Whitespace

\* re.split(r'[.!?]+\s+', s): the pieces between the matches, empty ones kept
RECURSIVE re_split_sentence_endings(_)
re_split_sentence_endings(s) ==
    LET starts == {i \in 1..Len(s) : sentence_ending_at(s, i)}
    IN  IF starts = {} THEN <<s>>
        ELSE LET i == CHOOSE i \in starts : \A j \in starts : i <= j
                 k == RunEnd(s, i, Terminators)
                 e == RunEnd(s, k + 1, Whitespace)
             IN  <<SubSeq(s, 1, i - 1)>> \o re_split_sentence_endings(From(s, e + 1))

\* s.split(sep) for a non-empty separator: the pieces, empty ones kept
RECURSIVE str_split(_, _)
str_split(s, sep) ==
    LET n == Len(sep)
        starts == {i \in 1..(Len(s) - n + 1) : SubSeq(s, i, i + n - 1) = sep}
    IN  IF starts = {} THEN <<s>>
        ELSE LET i == CHOOSE i \in starts : \A j \in starts : i <= j
             IN  <<SubSeq(s, 1, i - 1)>> \o str_split(From(s, i + n), sep)

\* s.split(): the words, separated by runs of whitespace
RECURSIVE str_split_words(_)
str_split_words(s) ==
    LET t == lstrip(s)
    IN  IF t = "" THEN <<>>
        ELSE LET e == WordEnd(t, 1)
             IN  <<SubSeq(t, 1, e)>> \o str_split_words(From(t, e + 1))

\* ' '.join(parts)
RECURSIVE join(_)
join(parts) ==
    IF parts = <<>> THEN ""
    ELSE IF Len(parts) = 1 THEN parts[1]
    ELSE parts[1] \o " " \o join(Tail(parts))

\* "x = x.strip(); if x: cleaned.append(x)" over a list
strip_nonempty(segments) ==
    SelectSeq([i \in 1..Len(segments) |-> strip(segments[i])], LAMBDA x : x # "")

\* utils.segment_by_sentences
segment_by_sentences(text) == strip_nonempty(re_split_sentence_endings(text))

\* utils.segment_by_paragraphs
segment_by_paragraphs(text) == strip_nonempty(str_split(text, "\n\n"))

\* a custom pattern is a literal separator, or a pattern re.split rejects
InvalidPattern == "("

\* (variant: the text is returned in one piece when re.split raises)
segment_by_custom_patterns_unsplit(text, patterns) ==
    IF patterns = <<>> THEN segment_by_sentences(text)
    ELSE IF patterns[1] = InvalidPattern THEN strip_nonempty(<<text>>)
    ELSE strip_nonempty(str_split(text, patterns[1]))

\* utils.segment_by_custom_patterns: the first pattern only; the sentence rule
\* when there is none or when re.split raises
segment_by_custom_patterns(text, patterns) ==
    IF patterns = <<>> THEN segment_by_sentences(text)
    ELSE IF patterns[1] = InvalidPattern THEN segment_by_sentences(text)
    ELSE strip_nonempty(str_split(text, patterns[1]))

\* utils.split_long_segment: the loop over the words from word k on
RECURSIVE split_long_segment_loop(_, _, _, _, _, _)
split_long_segment_loop(words, k, parts, current_part, current_length, max_len) ==
    IF k > Len(words)
    THEN IF current_part # <<>> THEN Append(parts, join(current_part)) ELSE parts
    ELSE LET word == words[k]
             word_length == Len(word) + 1
         IN  IF current_length + word_length <= max_len
             THEN split_long_segment_loop(words, k + 1, parts,
                                          Append(current_part, word),
                                          current_length + word_length, max_len)
             ELSE IF current_part # <<>>
             THEN split_long_segment_loop(words, k + 1,
                                          Append(parts, join(current_part)),
                                          <<word>>, Len(word), max_len)
             ELSE split_long_segment_loop(words, k + 1, Append(parts, word),
                                          current_part, current_length, max_len)

\* (variant: a word longer than max_len is cut to max_len characters)
split_long_segment_truncating(segment, max_len) ==
    LET words == str_split_words(segment)
    IN  split_long_segment_loop(
            [k \in 1..Len(words) |->
                IF Len(words[k]) > max_len THEN SubSeq(words[k], 1, max_len)
                ELSE words[k]],
            1, <<>>, <<>>, 0, max_len)

\* utils.split_long_segment
split_long_segment(segment, max_len) ==
    split_long_segment_loop(str_split_words(segment), 1, <<>>, <<>>, 0, max_len)

\* (variant: a short segment is emitted on its own)
short_segment_kept(constrained, segment) == Append(constrained, segment)

\* utils.py:411-416: a segment shorter than min_len joins the last output
\* segment, or opens the output when there is none
short_segment(constrained, segment) ==
    IF constrained # <<>>
    THEN [constrained EXCEPT ![Len(constrained)] = @ \o " " \o segment]
    ELSE Append(constrained, segment)

\* utils.apply_length_constraints: the loop from segment k on
RECURSIVE apply_length_constraints_loop(_, _, _, _, _)
apply_length_constraints_loop(segments, k, constrained, min_len, max_len) ==
    IF k > Len(segments) THEN constrained
    ELSE LET segment == segments[k]
             next == IF Len(segment) < min_len
                     THEN short_segment(constrained, segment)
                     ELSE IF Len(segment) > max_len
                     THEN constrained \o split_long_segment(segment, max_len)
                     ELSE Append(constrained, segment)
         IN  apply_length_constraints_loop(segments, k + 1, next, min_len, max_len)

\* utils.apply_length_constraints
apply_length_constraints(segments, min_len, max_len) ==
    apply_length_constraints_loop(segments, 1, <<>>, min_len, max_len)

\* utils.merge_short_segments: the loop from segment k on
RECURSIVE merge_short_segments_loop(_, _, _, _, _)
merge_short_segments_loop(segments, k, merged, current_segment, threshold) ==
    IF k > Len(segments) THEN Append(merged, current_segment)
    ELSE IF Len(current_segment) < threshold
    THEN merge_short_segments_loop(segments, k + 1, merged,
                                   current_segment \o " " \o segments[k], threshold)
    ELSE merge_short_segments_loop(segments, k + 1, Append(merged, current_segment),
                                   segments[k], threshold)

\* (variant: a last segment shorter than the threshold is not emitted)
merge_short_segments_dropping_last(segments, threshold) ==
    IF segments = <<>> THEN segments
    ELSE LET merged == merge_short_segments_loop(segments, 2, <<>>, segments[1],
                                                 threshold)
         IN  IF Len(merged[Len(merged)]) < threshold
             THEN SubSeq(merged, 1, Len(merged) - 1)
             ELSE merged

\* utils.merge_short_segments
merge_short_segments(segments, threshold) ==
    IF segments = <<>> THEN segments
    ELSE merge_short_segments_loop(segments, 2, <<>>, segments[1], threshold)

\* models.SegmentationOptions defaults, and the threshold segment_text passes
DEFAULT_MIN_SEGMENT_LENGTH == 10
DEFAULT_MAX_SEGMENT_LENGTH == 500
MERGE_THRESHOLD == 50

\* utils.segment_text, with its intermediate lists: the candidates of the
\* rule, the list after the length constraints, the list after the merge
\* pass, and the cleaned result.  options is None or Some(SegmentationOptions).
segment_text_candidates(text, options) ==
    IF options = None THEN segment_by_sentences(text)
    ELSE LET o == options[1]
         IN  IF o.rule = "paragraph" THEN segment_by_paragraphs(text)
             ELSE IF o.rule = "line" THEN str_split(text, "\n")
             ELSE IF o.rule = "custom"
             THEN segment_by_custom_patterns(text, o.custom_patterns)
             ELSE segment_by_sentences(text)

segment_text_constrained(sentences, options) ==
    IF options = None THEN sentences
    ELSE apply_length_constraints(sentences, options[1].min_segment_length,
                                  options[1].max_segment_length)

segment_text_merged(sentences, options) ==
    IF options # None /\ options[1].merge_short_segments
    THEN merge_short_segments(sentences, MERGE_THRESHOLD)
    ELSE sentences

segment_text(text, options) ==
    IF strip(text) = "" THEN <<>>
    ELSE strip_nonempty(
            segment_text_merged(
               segment_text_constrained(segment_text_candidates(text, options),
                                        options),
               options))

(***************************************************************************)
(* mt-gateway utils.validate_translation_quality.  The regular expressions *)
(* are computed by scanning; \w is sampled by the letters and digits of    *)
(* the character classes above.  The score is kept in tenths.              *)
(***************************************************************************)
\* re.findall(r'\d+', s): the maximal runs of digits, left to right
RECURSIVE findall_numbers(_)
findall_numbers(s) ==
    LET starts == {i \in 1..Len(s) : CharAt(s, i) \in Digits}
    IN  IF starts = {} THEN <<>>
        ELSE LET i == CHOOSE i \in starts : \A j \in starts : i <= j
                 k == RunEnd(s, i, Digits)
             IN  <<SubSeq(s, i, k)>> \o findall_numbers(From(s, k + 1))

WordChars == LowerCase \cup UpperCase \cup Digits
DateSeparators == {"/", "-"}

IsWordChar(s, i) == i >= 1 /\ i <= Len(s) /\ CharAt(s, i) \in WordChars

\* \b between the characters i - 1 and i
word_boundary(s, i) == IsWordChar(s, i - 1) # IsWordChar(s, i)

\* \d{n} from i
digits_at(s, i, n) == \A k \in i..(i + n - 1) : k <= Len(s) /\ CharAt(s, k) \in Digits

separator_at(s, i) == i <= Len(s) /\ CharAt(s, i) \in DateSeparators

\* the pattern matches from i with fields of a, b and c digits
date_fields_at(s, i, a, b, c) ==
    /\ word_boundary(s, i)
    /\ digits_at(s, i, a)
    /\ separator_at(s, i + a)
    /\ digits_at(s, i + a + 1, b)
    /\ separator_at(s, i + a + b + 1)
    /\ digits_at(s, i + a + b + 2, c)
    /\ word_boundary(s, i + a + b + c + 2)

\* the field widths of r'\b\d{1,2}[/-]\d{1,2}[/-]\d{4}\b' and of
\* r'\b\d{4}[/-]\d{1,2}[/-]\d{1,2}\b'
date_patterns ==
    <<{<<a, b, 4>> : a \in {1, 2}, b \in {1, 2}},
      {<<4, a, b>> : a \in {1, 2}, b \in {1, 2}}>>

\* re.findall(pattern, s): the matches left to right, none overlapping
RECURSIVE findall_dates(_, _)
findall_dates(widths, s) ==
    LET matches == {m \in (1..Len(s)) \X widths :
                        date_fields_at(s, m[1], m[2][1], m[2][2], m[2][3])}
    IN  IF matches = {} THEN <<>>
        ELSE LET m == CHOOSE m \in matches : \A n \in matches : m[1] <= n[1]
                 e == m[1] + m[2][1] + m[2][2] + m[2][3] + 1
             IN  <<SubSeq(s, m[1], e)>> \o findall_dates(widths, From(s, e + 1))

\* the dates of both patterns, as "for pattern in date_patterns" collects them
find_dates(s) == findall_dates(date_patterns[1], s) \o findall_dates(date_patterns[2], s)

\* tenths taken from the score by an error and by a warning, and the score 1.0
ERROR_PENALTY == 3
WARNING_PENALTY == 1
FULL_SCORE == 10

issue(type, severity) == [type |-> type, severity |-> severity]

count_severity(issues, severity) ==
    Len(SelectSeq(issues, LAMBDA i : i.severity = severity))

\* (variant: the warnings do not lower the score)
quality_score_errors_only(issues) ==
    LET score == FULL_SCORE - count_severity(issues, "error") * ERROR_PENALTY
    IN  IF score > 0 THEN score ELSE 0

\* utils.py:223-224: max(0, 1.0 - errors * 0.3 - warnings * 0.1), in tenths
quality_score(issues) ==
    LET score == FULL_SCORE - count_severity(issues, "error") * ERROR_PENALTY
                            - count_severity(issues, "warning") * WARNING_PENALTY
    IN  IF score > 0 THEN score ELSE 0

\* utils.py:161-167: length_ratio < 0.3 or length_ratio > 3.0, where the ratio
\* is len(translation) / len(source), or 0 for an empty source
length_mismatch(source, translation) ==
    IF source = "" THEN TRUE
    ELSE \/ 10 * Len(translation) < 3 * Len(source)
         \/ Len(translation) > 3 * Len(source)

\* utils.py:170-184: the number check, a warning or else an error
number_issues(source, translation) ==
    LET source_numbers == findall_numbers(source)
        translation_numbers == findall_numbers(translation)
    IN  IF Len(source_numbers) # Len(translation_numbers)
        THEN <<issue("number_mismatch", "warning")>>
        ELSE IF source_numbers # translation_numbers
        THEN <<issue("number_change", "error")>>
        ELSE <<>>

\* utils.validate_translation_quality: the issues in the order of the checks
validate_translation_quality(source, translation) ==
    LET issues ==
            (IF length_mismatch(source, translation)
             THEN <<issue("length_mismatch", "warning")>> ELSE <<>>) \o
            number_issues(source, translation) \o
            (IF Len(find_dates(source)) # Len(find_dates(translation))
             THEN <<issue("date_mismatch", "warning")>> ELSE <<>>) \o
            (IF strip(translation) = "" \/ Len(strip(translation)) < 3
             THEN <<issue("empty_translation", "error")>> ELSE <<>>) \o
            (IF strip(source) = strip(translation)
             THEN <<issue("no_translation", "warning")>> ELSE <<>>)
    IN  [issues |-> issues,
         quality_score |-> quality_score(issues),
         has_numbers |-> Len(findall_numbers(source)) > 0,
         has_dates |-> Len(find_dates(source)) > 0]

(***************************************************************************)
(* One segment_text call: the texts and options it is given.               *)
(***************************************************************************)
MaxTextLen == 4
SegmentAlphabet == {"a", " ", ".", "\n"}

\* the strings over alphabet A of at most n characters
RECURSIVE StringsOver(_, _)
StringsOver(A, n) ==
    IF n = 0 THEN {""}
    ELSE LET S == StringsOver(A, n - 1)
         IN  S \cup {s \o c : s \in S, c \in A}

RECURSIVE Repeat(_, _)
Repeat(s, n) ==
    IF n = 0 THEN ""
    ELSE LET half == Repeat(s, n \div 2)
         IN  half \o half \o (IF n % 2 = 1 THEN s ELSE "")

\* the specification's scenarios, and texts longer than the default maximum
ScenarioSentences == "Hello world. This is a test!"
LongToken == Repeat("a", 600)
LongSentence == Repeat("a", 300) \o " " \o Repeat("b", 300)
\* two short sentences before one of two characters; six sentences of twelve
\* characters; words that the greedy split groups and one it cannot
ShortSentences == "a. a. aa"
ManySentences ==
    LET w == Repeat("a", 12)
    IN  w \o ". " \o w \o ". " \o w \o ". " \o w \o ". " \o w \o ". " \o w
ManyWords == "aa a a aaaa a"
SegmentTexts ==
    StringsOver(SegmentAlphabet, MaxTextLen) \cup
        {ScenarioSentences, LongToken, LongSentence, "a,a. a",
         ShortSentences, ManySentences, ManyWords}

SegmentationRule == {"sentence", "paragraph", "line", "custom"}
LengthOptions ==
    {<<DEFAULT_MIN_SEGMENT_LENGTH, DEFAULT_MAX_SEGMENT_LENGTH>>, <<2, 3>>}
CustomPatterns == {<<>>, <<",">>, <<",", "a">>, <<InvalidPattern>>}

\* models.SegmentationOptions, or no options; custom_patterns is given with
\* the custom rule
SegmentationOptions ==
    {None} \cup
    UNION {{Some([rule |-> rule, merge_short_segments |-> merge,
                  min_segment_length |-> l[1], max_segment_length |-> l[2],
                  custom_patterns |-> patterns]) :
               merge \in BOOLEAN, l \in LengthOptions,
               patterns \in IF rule = "custom" THEN CustomPatterns ELSE {<<>>}} :
           rule \in SegmentationRule}

SegmentInit ==
    /\ MT_PROVIDER = "LIBRE"
    /\ IdleProviderState
    /\ prov = IdleProvider(TRUE)
    /\ seg = IdleSegmenter
    /\ norm = IdleNormalizer
    /\ quality = IdleQualityCheck

\* utils.segment_text(text, options)
segment_text_call(text, options) ==
    /\ seg.pc = "idle"
    /\ LET blank == strip(text) = ""
           sentences == IF blank THEN <<>> ELSE segment_text_candidates(text, options)
           constrained == segment_text_constrained(sentences, options)
           merged == segment_text_merged(constrained, options)
       IN  seg' = [pc |-> "returned", text |-> text, options |-> options,
                   sentences |-> sentences, constrained |-> constrained,
                   merged |-> merged, result |-> segment_text(text, options)]
    /\ UNCHANGED <<gateway_vars, prov, norm, quality>>

SegmentNext ==
    \E text \in SegmentTexts : \E options \in SegmentationOptions :
        segment_text_call(text, options)

SegmentSpec == SegmentInit /\ [][SegmentNext]_vars

(***************************************************************************)
(* normalize_text of the two services, applied to a text and then to its   *)
(* own result.                                                             *)
(***************************************************************************)
MaxNormLen == 4
NormalizeAlphabet == {"a", "B", "1", " ", "."}
NormalizeTexts == StringsOver(NormalizeAlphabet, MaxNormLen)
Services == {"mt-gateway", "format-service"}

NormalizeInit ==
    /\ MT_PROVIDER = "LIBRE"
    /\ IdleProviderState
    /\ prov = IdleProvider(TRUE)
    /\ seg = IdleSegmenter
    /\ norm = IdleNormalizer
    /\ quality = IdleQualityCheck

normalize_text_of(service, text) ==
    IF service = "mt-gateway" THEN normalize_text(text)
    ELSE FormatService_normalize_text(text)

\* normalize_text(text)
normalize_text_call(service, text) ==
    /\ norm.pc = "idle"
    /\ norm' = [norm EXCEPT !.pc = "once", !.service = service, !.text = text,
                            !.once = normalize_text_of(service, text)]
    /\ UNCHANGED <<gateway_vars, prov, seg, quality>>

\* normalize_text(normalize_text(text))
normalize_text_again ==
    /\ norm.pc = "once"
    /\ norm' = [norm EXCEPT !.pc = "twice",
                            !.twice = normalize_text_of(norm.service, norm.once)]
    /\ UNCHANGED <<gateway_vars, prov, seg, quality>>

NormalizeNext ==
    \/ \E service \in Services : \E text \in NormalizeTexts :
           normalize_text_call(service, text)
    \/ normalize_text_again

NormalizeSpec == NormalizeInit /\ [][NormalizeNext]_vars

(***************************************************************************)
(* One validate_translation_quality call.                                  *)
(***************************************************************************)
MaxQualityLen == 2
QualityAlphabet == {"a", "0", "1", " "}
\* texts long enough not to count as empty, with numbers and with dates
QualityTexts ==
    StringsOver(QualityAlphabet, MaxQualityLen) \cup
        {"abc", "1 0", "0 1", "1 a", "a 1 0", "1 aaaaaaaaaa",
         "1/1/1000", "on 1000-01-1", "11/1/1000 1000-1-1"}

QualityInit ==
    /\ MT_PROVIDER = "LIBRE"
    /\ IdleProviderState
    /\ prov = IdleProvider(TRUE)
    /\ seg = IdleSegmenter
    /\ norm = IdleNormalizer
    /\ quality = IdleQualityCheck

\* validate_translation_quality(source, translation, src_lang, tgt_lang)
validate_translation_quality_call(source, translation) ==
    /\ quality.pc = "idle"
    /\ LET result == validate_translation_quality(source, translation)
       IN  quality' = [pc |-> "returned", source |-> source,
                       translation |-> translation, issues |-> result.issues,
                       quality_score |-> result.quality_score]
    /\ UNCHANGED <<gateway_vars, prov, seg, norm>>

QualityNext ==
    \E source \in QualityTexts : \E translation \in QualityTexts :
        validate_translation_quality_call(source, translation)

QualitySpec == QualityInit /\ [][QualityNext]_vars

(***************************************************************************)
(* Vocabulary of the properties.                                           *)
(***************************************************************************)
BatchRequests == {r \in Slots : req[r].endpoint = "batch"}
Succeeded(r) == req[r].response.status = 200

\* position i of request r was answered from the cache: the lookup made for
\* it got a non-empty value.  Without a cache client there are no lookups.
WasHit(r, i) == i \in DOMAIN req[r].looked /\ req[r].looked[i].hit

\* the positions of r's segments that missed, and how many of them are <= i
Misses(r) == {i \in 1..Len(req[r].request.segments) : ~WasHit(r, i)}
MissRank(r, i) == Cardinality({j \in Misses(r) : j <= i})

\* the normalized texts of the missed segments of r, in their order
RECURSIVE MissTextsFrom(_, _)
MissTextsFrom(r, i) ==
    IF i > Len(req[r].request.segments) THEN <<>>
    ELSE IF WasHit(r, i) THEN MissTextsFrom(r, i + 1)
    ELSE <<normalize_text(req[r].request.segments[i])>> \o MissTextsFrom(r, i + 1)
MissTexts(r) == MissTextsFrom(r, 1)

\* what a provider can answer for a text on behalf of r: a translation of
\* it, an empty string, or (LibreTranslate, failed item) the text itself
ProviderAnswers(text, r) ==
    {backend_translation(text, "ok", r), backend_translation(text, "empty", r), text}

\* the loop over the segments of r has run to its end
LoopDone(r) ==
    \/ req[r].pc \in {"await", "background"}
    \/ req[r].pc = "done" /\ (Succeeded(r) \/ req[r].raised)

(***************************************************************************)
(* C1.  In every successful /translate/batch response, whatever the        *)
(* pattern of cache hits and misses, element i is the translation of       *)
(* segment i of the request the handler received: the value the cache      *)
(* returned when the lookup of segment i was a hit, and otherwise the      *)
(* element the provider returned for segment i, which is an answer to the  *)
(* normalized text of segment i.                                           *)
(***************************************************************************)
C1_OrderPreserved ==
    \A r \in BatchRequests :
        Succeeded(r) =>
            LET q == req[r]
            IN  /\ Len(q.response.segments) = Len(q.request.segments)
                /\ \A i \in 1..Len(q.request.segments) :
                      IF WasHit(r, i)
                      THEN q.response.segments[i] = q.looked[i].val
                      ELSE /\ MissRank(r, i) \in DOMAIN q.translated_batch
                           /\ q.response.segments[i] = q.translated_batch[MissRank(r, i)]
                           /\ q.response.segments[i] \in
                                 ProviderAnswers(normalize_text(q.request.segments[i]), r)

\* a successful response with a miss between two hits
C1_Witness ==
    \E r \in BatchRequests :
        /\ Succeeded(r)
        /\ Len(req[r].request.segments) = 3
        /\ WasHit(r, 1) /\ ~WasHit(r, 2) /\ WasHit(r, 3)
        /\ req[r].response.segments[2] = backend_translation("b", "ok", r)

(***************************************************************************)
(* C3.  Within one /translate/batch request the provider's translate_batch *)
(* is called at most once, and only when some segment missed the cache;    *)
(* its argument is the normalized texts of the missed segments in their    *)
(* original order, so no segment that hit is sent.                         *)
(***************************************************************************)
C3_ProviderCalledOnceWithMisses ==
    \A r \in BatchRequests :
        /\ Len(req[r].calls) <= 1
        /\ req[r].calls # <<>> =>
              /\ Misses(r) # {}
              /\ req[r].calls[1] = MissTexts(r)
              /\ Len(req[r].calls[1]) = Cardinality(Misses(r))
        /\ LoopDone(r) => (req[r].calls = <<>> <=> Misses(r) = {})

\* the provider was called with one text, normalized, while two segments hit
C3_Witness ==
    \E r \in BatchRequests :
        /\ req[r].pc = "await"
        /\ Len(req[r].request.segments) = 3
        /\ WasHit(r, 1) /\ WasHit(r, 3)
        /\ req[r].calls = <<<<"b">>>>

(***************************************************************************)
(* C4.  A successful batch response reports count = the number of          *)
(* segments and cachedCount = count minus the number of texts sent to the  *)
(* provider, every occurrence of a cached text counted.  For the batch     *)
(* [a, b, a] with a cached as A: the provider gets [b], the response is    *)
(* [A, translation of b, A] and cachedCount is 2.                          *)
(***************************************************************************)
C4_CachedCount ==
    \A r \in BatchRequests :
        Succeeded(r) =>
            LET q == req[r]
                sent == IF q.calls = <<>> THEN 0 ELSE Len(q.calls[1])
                hits == {i \in 1..Len(q.request.segments) : WasHit(r, i)}
            IN  /\ q.response.count = Len(q.request.segments)
                /\ q.response.cached_count = q.response.count - sent
                /\ q.response.cached_count = Cardinality(hits)
                /\ (/\ q.request.segments = ScenarioBatch
                    /\ WasHit(r, 1) /\ ~WasHit(r, 2) /\ WasHit(r, 3))
                   => /\ q.calls = <<<<"b">>>>
                      /\ q.response.segments =
                            <<q.looked[1].val, q.translated_batch[1], q.looked[3].val>>
                      /\ q.response.cached_count = 2

\* the scenario: [a, b, a] answered with a cached by an earlier /translate
C4_Witness ==
    \E r \in BatchRequests : \E p \in Slots \ {r} :
        /\ Succeeded(r)
        /\ req[r].body.segments = ScenarioBatch
        /\ req[p].endpoint = "translate" /\ req[p].body.text = ScenarioText
        /\ Succeeded(p) /\ ~req[p].response.cached
        /\ req[r].response.segments =
              <<req[p].response.text, backend_translation("b", "ok", r),
                req[p].response.text>>
        /\ req[r].response.cached_count = 2

(***************************************************************************)
(* C5.  A batch request that fails validation (more than 500 segments,     *)
(* every segment blank, or a language pair the provider does not support)  *)
(* is rejected before any cache lookup, cache write or provider call is    *)
(* made for it.                                                            *)
(***************************************************************************)
FailsValidation(body) ==
    \/ Len(body.segments) > MAX_ITEMS
    \/ \A i \in 1..Len(body.segments) : strip(body.segments[i]) = ""
    \/ <<validate_language_codes(body.src), validate_language_codes(body.tgt)>>
          \notin get_supported_languages(MT_PROVIDER)

C5_RejectedBeforeCacheAndProvider ==
    \A r \in BatchRequests :
        FailsValidation(req[r].body) =>
            /\ req[r].pc = "done"
            /\ req[r].response.status >= 400
            /\ req[r].looked = <<>>
            /\ req[r].calls = <<>>
            /\ req[r].wrote = <<>>
            /\ req[r].tasks = <<>>

\* with the cache connected: an oversized batch and a batch in an unsupported
\* pair have both been rejected
C5_Witness ==
    /\ redis_client = "Redis" /\ redisUp
    /\ \E r \in BatchRequests :
          /\ Len(req[r].body.segments) > MAX_ITEMS
          /\ req[r].pc = "done"
    /\ \E r \in BatchRequests :
          /\ Len(req[r].body.segments) <= MAX_ITEMS
          /\ req[r].body.segments[1] # " "
          /\ req[r].body.src = "en"
          /\ req[r].pc = "done"

(***************************************************************************)
(* C2.  A successful /translate/batch response holds one output per        *)
(* segment the client submitted, at the same position, blank segments      *)
(* included: a non-blank segment submitted at position i is answered at    *)
(* position i.                                                             *)
(***************************************************************************)
AnswersTo(text) ==
    UNION {ProviderAnswers(normalize_text(strip(text)), p) : p \in Slots}

C2_OneOutputPerSubmittedSegment ==
    \A r \in BatchRequests :
        Succeeded(r) =>
            /\ Len(req[r].response.segments) = Len(req[r].body.segments)
            /\ \A i \in 1..Len(req[r].body.segments) :
                  strip(req[r].body.segments[i]) # "" =>
                      /\ i \in DOMAIN req[r].response.segments
                      /\ req[r].response.segments[i] \in AnswersTo(req[r].body.segments[i])

(***************************************************************************)
(* C6.  A validation failure reaches the caller with a 4xx status, never   *)
(* a 5xx: an unsupported language pair on /translate and /translate/batch, *)
(* a text of fewer than 3 characters on /detect.                           *)
(***************************************************************************)
UnsupportedPair(r) ==
    /\ req[r].endpoint \in {"translate", "batch"}
    /\ req[r].request # NoBody
    /\ <<req[r].request.src, req[r].request.tgt>> \notin
          get_supported_languages(MT_PROVIDER)

TooShortToDetect(r) ==
    /\ req[r].endpoint = "detect"
    /\ Len(strip(req[r].body.text)) < MIN_DETECT_LEN

C6_ValidationFailureIs4xx ==
    \A r \in Slots :
        (req[r].pc = "done" /\ (UnsupportedPair(r) \/ TooShortToDetect(r))) =>
            /\ req[r].response.status >= 400
            /\ req[r].response.status <= 499

(***************************************************************************)
(* C7.  With the cache unavailable (unreachable at startup, or the         *)
(* connection lost during a request) /translate and /translate/batch       *)
(* still answer a valid request with the provider's translation: unless    *)
(* the provider itself failed, the request succeeds.                       *)
(***************************************************************************)
ValidTranslation(r) ==
    /\ req[r].endpoint \in {"translate", "batch"}
    /\ req[r].request # NoBody
    /\ <<req[r].request.src, req[r].request.tgt>> \in
          get_supported_languages(MT_PROVIDER)

C7_CacheOutageIsPassThrough ==
    \A r \in Slots :
        (/\ redis_client = "None" \/ ~redisUp
         /\ req[r].pc = "done"
         /\ ValidTranslation(r)
         /\ ~req[r].raised)
        => Succeeded(r)

(***************************************************************************)
(* C8.  A translation the gateway stored is returned as a hit by every     *)
(* lookup of its key made less than 3600 seconds after the write, and is   *)
(* a miss, followed by a provider call, once 3600 seconds have passed.     *)
(***************************************************************************)
C8_StoredEntryHitUntilTtl ==
    \A r \in Slots : \A i \in DOMAIN req[r].looked :
        LET l == req[r].looked[i]
        IN  l.written =>
                IF l.age < CACHE_TTL
                THEN l.hit /\ l.val = l.stored
                ELSE /\ ~l.hit
                     /\ LoopDone(r) =>
                           /\ req[r].calls # <<>>
                           /\ \E j \in DOMAIN req[r].calls[1] :
                                 req[r].calls[1][j] = normalize_text(l.text)

(***************************************************************************)
(* C9.  The cache key is a function of (provider, source, target,          *)
(* normalized text): two lookups, under one provider and language pair,    *)
(* of texts with the same normalized form use the same key.                *)
(***************************************************************************)
C9_SameNormalizedTextSameKey ==
    \A r1 \in Slots, r2 \in Slots :
        \A i1 \in DOMAIN req[r1].looked, i2 \in DOMAIN req[r2].looked :
            (/\ req[r1].request.src = req[r2].request.src
             /\ req[r1].request.tgt = req[r2].request.tgt
             /\ normalize_text(req[r1].looked[i1].text) =
                   normalize_text(req[r2].looked[i2].text))
            => req[r1].looked[i1].key = req[r2].looked[i2].key

(***************************************************************************)
(* C10.  Two concurrent requests for the same uncached text never wait     *)
(* for each other: every step of a request is enabled whatever the other   *)
(* request is doing; each of the two misses, each sends the text to the    *)
(* provider, each writes the cache when its provider call succeeds and     *)
(* Redis answers, and once both have written, the entry is present and     *)
(* holds the value of the later write.                                     *)
(***************************************************************************)
WritesOf(r, key) == {i \in DOMAIN req[r].wrote : req[r].wrote[i].key = key}

\* the write of the key that Redis applied last, among those of r1 and r2
LastWrite(r1, r2, key) ==
    LET ws == {req[r1].wrote[i] : i \in WritesOf(r1, key)} \cup
              {req[r2].wrote[i] : i \in WritesOf(r2, key)}
    IN  CHOOSE w \in ws : \A v \in ws : v.stamp <= w.stamp

C10_NoWaitLastWriteWins ==
    /\ \A r \in Slots :
          /\ req[r].pc = "lookup" => ENABLED translate_batch_lookup(r)
          /\ req[r].pc = "await" =>
                ENABLED (translate_text_return(r) \/ translate_batch_return(r))
          /\ req[r].pc = "background" => ENABLED background_task(r)
    /\ \A r1 \in Slots, r2 \in Slots :
          \A i1 \in DOMAIN req[r1].looked, i2 \in DOMAIN req[r2].looked :
             LET l1 == req[r1].looked[i1]
                 l2 == req[r2].looked[i2]
                 key == l1.key
             IN  (r1 # r2 /\ l1.key = l2.key /\ ~l1.written /\ ~l2.written) =>
                    /\ ~l1.hit /\ ~l2.hit
                    /\ \A r \in {r1, r2} :
                          /\ LoopDone(r) =>
                                /\ req[r].calls # <<>>
                                /\ \E j \in DOMAIN req[r].calls[1] :
                                      req[r].calls[1][j] = normalize_text(l1.text)
                          /\ (req[r].pc = "done" /\ Succeeded(r) /\ redisUp) =>
                                WritesOf(r, key) # {}
                    /\ (WritesOf(r1, key) # {} /\ WritesOf(r2, key) # {}) =>
                          /\ key \in DOMAIN cache
                          /\ cache[key].val = LastWrite(r1, r2, key).value
                          /\ cache[key].stamp = LastWrite(r1, r2, key).stamp

\* two batches missed the same text before either wrote it; both wrote, the
\* first slot first, and the cache holds the second slot's translation
C10_Witness ==
    /\ req[1].endpoint = "batch" /\ req[2].endpoint = "batch"
    /\ req[1].pc = "done" /\ req[2].pc = "done"
    /\ \E i1 \in DOMAIN req[1].looked, i2 \in DOMAIN req[2].looked :
          /\ req[1].looked[i1].key = req[2].looked[i2].key
          /\ ~req[1].looked[i1].written /\ ~req[2].looked[i2].written
          /\ \E w1 \in WritesOf(1, req[1].looked[i1].key) :
             \E w2 \in WritesOf(2, req[1].looked[i1].key) :
                /\ req[1].wrote[w1].stamp < req[2].wrote[w2].stamp
                /\ req[1].wrote[w1].value # req[2].wrote[w2].value
                /\ cache[req[1].looked[i1].key].val = req[2].wrote[w2].value

(***************************************************************************)
(* C11.  In /translate/batch the cache writes of the newly translated      *)
(* misses are made only after the response has been computed, and no step  *)
(* taken after that (a write that is applied, a write that fails, or no    *)
(* further step at all) changes or fails the response: every step that     *)
(* writes for a batch request starts from a state in which its 200         *)
(* response exists, and a response, once computed, never changes.          *)
(***************************************************************************)
C11_WritesAfterResponseLeaveIt ==
    [][\A r \in BatchRequests :
          /\ req'[r].wrote # req[r].wrote =>
                /\ req[r].pc = "background"
                /\ req[r].response.status = 200
          /\ req[r].pc = "background" =>
                /\ req[r].response.status = 200
                /\ Len(req[r].response.segments) = Len(req[r].request.segments)
          /\ req[r].response.status # 0 => req'[r].response = req[r].response]_vars

\* a batch answered 200 whose first cache write failed: nothing was written
C11_Witness ==
    \E r \in BatchRequests :
        /\ req[r].pc = "done"
        /\ Succeeded(r)
        /\ redis_client = "Redis" /\ ~redisUp
        /\ req[r].calls # <<>>
        /\ req[r].wrote = <<>>
        /\ req[r].response.segments[1] \in
              ProviderAnswers(normalize_text(req[r].request.segments[1]), r) \ {""}

(***************************************************************************)
(* C12.  In a successful batch with the cache connected, exactly one write *)
(* is scheduled for every segment that missed, under that segment's own    *)
(* key and with the translation the response gives at that segment's       *)
(* position; and once the scheduled writes have all been applied (no other *)
(* request having written, no entry expired) a lookup of segment i is      *)
(* answered with the translation the response gave at position i.          *)
(***************************************************************************)
SegmentKey(r, i) ==
    cache_key(req[r].request.segments[i], req[r].request.src, req[r].request.tgt,
              MT_PROVIDER)

C12_OneWritePerMissReadBack ==
    \A r \in BatchRequests :
        (Succeeded(r) /\ redis_client = "Redis") =>
            LET q == req[r]
            IN  /\ (q.pc = "background" /\ q.wrote = <<>>) =>
                      /\ Len(q.tasks) = Cardinality(Misses(r))
                      /\ \A i \in Misses(r) :
                            q.tasks[MissRank(r, i)] =
                               [key |-> SegmentKey(r, i), value |-> q.response.segments[i]]
                /\ (/\ q.pc = "done"
                    /\ Len(q.wrote) = Cardinality(Misses(r))
                    /\ \A p \in Slots \ {r} : req[p].wrote = <<>>
                    /\ \A i \in Misses(r) :
                          /\ SegmentKey(r, i) \in DOMAIN cache
                          /\ entry_live(cache[SegmentKey(r, i)], now))
                   => \A i \in Misses(r) :
                         LET cached == redis_get(cache, SegmentKey(r, i), now)
                         IN  /\ Truthy(cached)
                             /\ cached[1] = q.response.segments[i]

(***************************************************************************)
(* C13.  LibreTranslateProvider.translate_batch never raises because       *)
(* per-item calls fail: at every index whose call failed the result is the *)
(* original text, and every other index holds what its call returned.      *)
(***************************************************************************)
C13_FailedItemsEchoed ==
    MT_PROVIDER = "LIBRE" =>
        /\ prov.pc # "raised"
        /\ ~prov.raised
        /\ prov.pc = "returned" =>
              /\ Len(prov.value) = Len(prov.texts)
              /\ \A i \in 1..Len(prov.texts) :
                    IF prov.results[i].raised
                    THEN prov.value[i] = prov.texts[i]
                    ELSE /\ prov.value[i] = prov.results[i].value
                         /\ prov.value[i] \in
                               {backend_translation(prov.texts[i], o, 0) :
                                   o \in {"ok", "empty"}}

\* three calls, the second failed: two translations and one echo
C13_Witness ==
    /\ MT_PROVIDER = "LIBRE"
    /\ prov.initialized
    /\ prov.pc = "returned"
    /\ prov.texts = <<"a", "b", "a">>
    /\ prov.value = <<backend_translation("a", "ok", 0), "b",
                      backend_translation("a", "ok", 0)>>

(***************************************************************************)
(* C14.  LibreTranslateProvider.translate_batch issues all per-item calls  *)
(* at once (any pending call may be the next to complete), returns only    *)
(* when all of them have completed, and returns a list of the length of    *)
(* the input whose i-th element is the outcome of the call made for the    *)
(* i-th text, whatever the order of completion.                            *)
(***************************************************************************)
OutcomesOf(text) ==
    {text} \cup {backend_translation(text, o, 0) : o \in {"ok", "empty"}}

C14_GatherKeepsInputOrder ==
    MT_PROVIDER = "LIBRE" =>
        /\ prov.pc = "gather" =>
              /\ prov.pending \cup DOMAIN prov.results = 1..Len(prov.texts)
              /\ \A i \in prov.pending :
                    ENABLED (\E o \in ItemOutcomes : LibreTranslateProvider_translate(i, o))
              /\ prov.pending # {} => ~ENABLED LibreTranslateProvider_translate_batch_return
        /\ prov.pc = "returned" =>
              /\ prov.pending = {}
              /\ Len(prov.finished) = Len(prov.texts)
              /\ Len(prov.value) = Len(prov.texts)
              /\ \A i \in 1..Len(prov.texts) :
                    /\ prov.value[i] \in OutcomesOf(prov.texts[i])
                    /\ prov.value[i] =
                          IF prov.results[i].raised THEN prov.texts[i]
                          ELSE prov.results[i].value

\* the call for the last text completed first, the call for the first text
\* last, and the two texts differ
C14_Witness ==
    /\ MT_PROVIDER = "LIBRE"
    /\ prov.initialized
    /\ prov.pc = "returned"
    /\ prov.texts = <<"a", "b", "b">>
    /\ prov.finished = <<3, 2, 1>>
    /\ prov.value = <<backend_translation("a", "ok", 0),
                      backend_translation("b", "ok", 0),
                      backend_translation("b", "empty", 0)>>

(***************************************************************************)
(* C15.  With Marian or NLLB, translate_batch either returns one result    *)
(* per text it was given, in their order, or fails as a whole; when it     *)
(* fails inside a /translate/batch request, the request ends with a 5xx    *)
(* status, the response carries no segments, and no cache write is         *)
(* scheduled or made for the request.                                      *)
(***************************************************************************)
C15_InferenceAllOrNothing ==
    MT_PROVIDER \in {"MARIAN", "NLLB"} =>
        \A r \in BatchRequests :
            LET q == req[r]
            IN  /\ q.raised =>
                      /\ q.pc = "done"
                      /\ q.response.status >= 500
                      /\ q.response.segments = <<>>
                      /\ q.translated_batch = <<>>
                      /\ q.tasks = <<>>
                      /\ q.wrote = <<>>
                /\ (q.calls # <<>> /\ q.pc # "await" /\ ~q.raised) =>
                      /\ Len(q.translated_batch) = Len(q.calls[1])
                      /\ \A k \in 1..Len(q.calls[1]) :
                            q.translated_batch[k] \in
                               {backend_translation(q.calls[1][k], o, r) :
                                   o \in {"ok", "empty"}}
                      /\ Succeeded(r)

\* Marian, cache connected: a batch of three misses whose inference failed
C15_Witness ==
    /\ MT_PROVIDER = "MARIAN"
    /\ redis_client = "Redis" /\ redisUp
    /\ \E r \in BatchRequests :
          /\ req[r].raised
          /\ Len(req[r].calls[1]) = 3
          /\ req[r].response.status = 500

(***************************************************************************)
(* C16.  No provider's supported set holds a pair whose source equals its  *)
(* target, so a /translate or /translate/batch request whose src and tgt   *)
(* are equal after normalization is rejected as an unsupported pair        *)
(* without a cache lookup or a provider call.                              *)
(***************************************************************************)
IdentityPair(r) ==
    /\ req[r].endpoint \in {"translate", "batch"}
    /\ req[r].request # NoBody
    /\ req[r].request.src = req[r].request.tgt

C16_IdentityPairRejected ==
    /\ \A pair \in get_supported_languages(MT_PROVIDER) : pair[1] # pair[2]
    /\ \A r \in Slots :
          IdentityPair(r) =>
              /\ req[r].pc = "done"
              /\ req[r].response.status >= 400
              /\ req[r].looked = <<>>
              /\ req[r].calls = <<>>
              /\ req[r].wrote = <<>>

\* NLLB: a request from eng to EN (both en after normalization) and a batch
\* from en to en have been rejected
C16_Witness ==
    /\ MT_PROVIDER = "NLLB"
    /\ \E r \in Slots :
          /\ req[r].endpoint = "translate"
          /\ req[r].body.src = "eng" /\ req[r].body.tgt = "EN"
          /\ IdentityPair(r)
          /\ req[r].pc = "done"
    /\ \E r \in BatchRequests :
          /\ IdentityPair(r)
          /\ req[r].pc = "done"

(***************************************************************************)
(* C17.  After request validation every src and tgt code is lowercase and  *)
(* is none of ara, spa, fra, eng (those become ar, es, fr, en whatever the *)
(* letter case of the input), so that normalizing a validated code again   *)
(* changes nothing.                                                        *)
(***************************************************************************)
ThreeLetterVariants == {"ara", "spa", "fra", "eng"}

C17_CodesNormalized ==
    \A r \in Slots :
        (req[r].endpoint \in {"translate", "batch"} /\ req[r].request # NoBody) =>
            \A code \in {req[r].request.src, req[r].request.tgt} :
                /\ lower(code) = code
                /\ code \notin ThreeLetterVariants
                /\ validate_language_codes(code) = code

(***************************************************************************)
(* C18.  Every segment that segment() returns has length at most           *)
(* maxSegmentLength (500 when no options are given) or is a single word    *)
(* longer than that, for every text, rule and option values, the backward  *)
(* merge of short segments and the mergeShortSegments pass included.       *)
(***************************************************************************)
MaxSegmentLength(options) ==
    IF options = None THEN DEFAULT_MAX_SEGMENT_LENGTH
    ELSE options[1].max_segment_length

SingleWord(segment) == str_split_words(segment) = <<segment>>

C18_SegmentLengthBound ==
    seg.pc = "returned" =>
        \A k \in 1..Len(seg.result) :
            \/ Len(seg.result[k]) <= MaxSegmentLength(seg.options)
            \/ SingleWord(seg.result[k])

(***************************************************************************)
(* C19.  For every text and rule, the non-whitespace characters of the     *)
(* returned segments, read in output order, are the non-whitespace         *)
(* characters of the input in input order, sentence terminators included.  *)
(***************************************************************************)
RECURSIVE Concat(_)
Concat(parts) == IF parts = <<>> THEN "" ELSE Head(parts) \o Concat(Tail(parts))

NonWhitespace(s) == Concat(str_split_words(s))

C19_SegmentationLosesNothing ==
    seg.pc = "returned" =>
        NonWhitespace(join(seg.result)) = NonWhitespace(seg.text)

(***************************************************************************)
(* C20.  Under the sentence rule, segment("Hello world. This is a test!")  *)
(* returns the two segments "Hello world" and "This is a test", in that    *)
(* order.                                                                  *)
(***************************************************************************)
SentenceRule(options) ==
    \/ options = None
    \/ /\ options # None
       /\ options[1].rule = "sentence"
       /\ ~options[1].merge_short_segments
       /\ options[1].min_segment_length = DEFAULT_MIN_SEGMENT_LENGTH
       /\ options[1].max_segment_length = DEFAULT_MAX_SEGMENT_LENGTH

C20_ScenarioTwoSentences ==
    (seg.pc = "returned" /\ seg.text = ScenarioSentences /\ SentenceRule(seg.options))
        => seg.result = <<"Hello world", "This is a test">>

(***************************************************************************)
(* C21.  Text normalization is idempotent, in the gateway and in the       *)
(* format service: normalize_text applied to its own result returns that   *)
(* result.                                                                 *)
(***************************************************************************)
C21_NormalizeIdempotent ==
    norm.pc = "twice" => norm.twice = norm.once

\* a text that every substitution of normalize_text changes has been
\* normalized twice
C21_Witness ==
    /\ norm.pc = "twice"
    /\ norm.service = "format-service"
    /\ norm.text = "a1B."
    /\ norm.once = "a 1 B."

(***************************************************************************)
(* C22.  The quality score is max(0, 1 - 0.3 * errorCount - 0.1 *          *)
(* warningCount) over the reported issues, and lies in [0, 1] (here in     *)
(* tenths: max(0, 10 - 3 * errorCount - warningCount), in 0..10).          *)
(***************************************************************************)
ErrorCount == Cardinality({k \in 1..Len(quality.issues) : quality.issues[k].severity = "error"})
WarningCount == Cardinality({k \in 1..Len(quality.issues) : quality.issues[k].severity = "warning"})

C22_QualityScoreFormula ==
    quality.pc = "returned" =>
        /\ quality.quality_score >= 0
        /\ quality.quality_score <= 10
        /\ LET score == 10 - 3 * ErrorCount - WarningCount
           IN  quality.quality_score = IF score > 0 THEN score ELSE 0

\* a check that reported two errors and a warning
C22_Witness ==
    /\ quality.pc = "returned"
    /\ ErrorCount = 2
    /\ WarningCount >= 1
    /\ quality.quality_score = 10 - 3 * ErrorCount - WarningCount

(***************************************************************************)
(* C23.  The quality checks are independent: whenever source and           *)
(* translation both contain numeral tokens and the token sequences differ, *)
(* an error-severity issue is reported, and whenever the token counts      *)
(* differ, a warning-severity issue is reported.                           *)
(***************************************************************************)
NumeralsOf(s) == findall_numbers(s)

C23_NumberChecksIndependent ==
    quality.pc = "returned" =>
        LET source_numbers == NumeralsOf(quality.source)
            translation_numbers == NumeralsOf(quality.translation)
        IN  /\ (/\ source_numbers # <<>>
                /\ translation_numbers # <<>>
                /\ source_numbers # translation_numbers)
                   => ErrorCount >= 1
            /\ Len(source_numbers) # Len(translation_numbers)
                   => WarningCount >= 1

(***************************************************************************)
(* C24.  In the length-constraint pass a candidate shorter than minLen     *)
(* produces no output segment of its own: it is appended, after one space, *)
(* to the most recently accumulated output segment, and is emitted as-is   *)
(* only when nothing has been accumulated yet.  A candidate of length      *)
(* within [minLen, maxLen] is emitted unchanged.                           *)
(***************************************************************************)
\* the output accumulated when the pass has taken the first k candidates
ConstrainedAfter(k) ==
    apply_length_constraints(SubSeq(seg.sentences, 1, k),
                             seg.options[1].min_segment_length,
                             seg.options[1].max_segment_length)

WordsOf(s) == str_split_words(s)

RECURSIVE WordsOfAll(_)
WordsOfAll(parts) ==
    IF parts = <<>> THEN <<>> ELSE WordsOf(Head(parts)) \o WordsOfAll(Tail(parts))

C25_GreedySplitKeepsWords ==
    (seg.pc = "returned" /\ seg.options # None) =>
        LET max_len == seg.options[1].max_segment_length
        IN  /\ \A k \in 1..Len(seg.sentences) :
                  Len(seg.sentences[k]) > max_len =>
                      LET segment == seg.sentences[k]
                          parts == split_long_segment(segment, max_len)
                      IN  /\ WordsOfAll(parts) = WordsOf(segment)
                          /\ \A p \in 1..Len(parts) :
                                /\ parts[p] = join(WordsOf(parts[p]))
                                /\ Len(WordsOf(parts[p])) >= 2 => Len(parts[p]) <= max_len
                          /\ \A w \in 1..Len(WordsOf(segment)) :
                                Len(WordsOf(segment)[w]) > max_len =>
                                    \E p \in 1..Len(parts) : parts[p] = WordsOf(segment)[w]
                          /\ Len(seg.sentences) = 1 => seg.constrained = parts
            /\ (seg.text = LongToken /\ max_len = DEFAULT_MAX_SEGMENT_LENGTH) =>
                  /\ seg.result = <<LongToken>>
                  /\ Len(seg.result[1]) = 600

\* words grouped greedily, with a word longer than maxLen between them
C25_Witness ==
    /\ seg.pc = "returned"
    /\ seg.options # None
    /\ seg.options[1].max_segment_length = 3
    /\ seg.sentences = <<ManyWords>>
    /\ seg.constrained = <<"aa", "a a", "aaaa", "a">>

(***************************************************************************)
(* C26.  After the mergeShortSegments pass every output segment except     *)
(* possibly the last has length at least 50, the last accumulated segment  *)
(* is always emitted, and joining the outputs with single spaces gives the *)
(* same string as joining the inputs of the pass with single spaces.       *)
(***************************************************************************)
EndsWith(s, suffix) ==
    Len(suffix) <= Len(s) /\ SubSeq(s, Len(s) - Len(suffix) + 1, Len(s)) = suffix

C26_MergePassKeepsText ==
    (/\ seg.pc = "returned"
     /\ seg.options # None
     /\ seg.options[1].merge_short_segments) =>
        /\ \A k \in 1..(Len(seg.merged) - 1) : Len(seg.merged[k]) >= 50
        /\ seg.constrained # <<>> =>
              /\ seg.merged # <<>>
              /\ EndsWith(seg.merged[Len(seg.merged)],
                          seg.constrained[Len(seg.constrained)])
        /\ join(seg.merged) = join(seg.constrained)

\* six segments of twelve characters became one of 51 and a last one of 25
C26_Witness ==
    /\ seg.pc = "returned"
    /\ seg.options # None
    /\ seg.options[1].merge_short_segments
    /\ Len(seg.constrained) = 6
    /\ Len(seg.merged) = 2
    /\ Len(seg.merged[1]) = 51
    /\ Len(seg.merged[2]) = 25

(***************************************************************************)
(* C27.  Under the custom rule the text is split on the first pattern of   *)
(* customPatterns only; when customPatterns is empty or the pattern raises *)
(* an error, the candidate segments are those of the sentence rule for the *)
(* same text, and segment() returns normally.                              *)
(***************************************************************************)
Contains(s, sub) ==
    \E i \in 1..(Len(s) - Len(sub) + 1) : SubSeq(s, i, i + Len(sub) - 1) = sub

CustomRule(options) == options # None /\ options[1].rule = "custom"

C27_CustomRuleFirstPatternOrSentences ==
    (seg.pc = "returned" /\ CustomRule(seg.options) /\ strip(seg.text) # "") =>
        LET patterns == seg.options[1].custom_patterns
        IN  IF patterns = <<>> \/ patterns[1] = InvalidPattern
            THEN seg.sentences = segment_by_sentences(seg.text)
            ELSE /\ seg.sentences = segment_by_custom_patterns(seg.text, <<patterns[1]>>)
                 /\ \A k \in 1..Len(seg.sentences) :
                       ~Contains(seg.sentences[k], patterns[1])
                 /\ NonWhitespace(join(str_split(join(seg.sentences), patterns[1]))) =
                       NonWhitespace(join(str_split(seg.text, patterns[1])))

\* an invalid pattern: the text was split as the sentence rule splits it
C27_Witness ==
    /\ seg.pc = "returned"
    /\ CustomRule(seg.options)
    /\ seg.options[1].custom_patterns = <<InvalidPattern>>
    /\ seg.text = "a. a"
    /\ seg.sentences = <<"a", "a">>
    /\ seg.result # <<seg.text>>

(***************************************************************************)
(* C28.  For every provider, a translate_batch (and translate) call on a   *)
(* provider whose initialize() has not completed ends in an error and      *)
(* returns no translations: an uninitialized provider never returns a list *)
(* of results.                                                             *)
(***************************************************************************)
C28_UninitializedProviderRaises ==
    ~prov.initialized =>
        /\ prov.pc # "returned"
        /\ \A i \in DOMAIN prov.results : prov.results[i].raised
        /\ prov.pc = "raised" => (prov.raised /\ prov.value = <<>>)

(***************************************************************************)
(* C29.  Every value the gateway writes to the cache under a text's key    *)
(* was returned by a successful backend translation of that text: the      *)
(* original text that LibreTranslateProvider substitutes for a failed      *)
(* per-item call is never stored as that text's translation.               *)
(***************************************************************************)
SuccessfulTranslations(r) ==
    {backend_translation(req[r].uncached_texts[j], o, r) :
        j \in 1..Len(req[r].uncached_texts), o \in {"ok", "empty"}}

C29_OnlyTranslationsCached ==
    \A r \in Slots :
        \A k \in 1..Len(req[r].wrote) :
            req[r].wrote[k].value \in SuccessfulTranslations(r)

(***************************************************************************)
(* C30.  /translate returns cached = true only if the provider was not     *)
(* called during the request and the returned text is the value the cache  *)
(* holds for the request's key; it returns cached = false only after       *)
(* exactly one provider translate call, whose result is the returned text  *)
(* and, with the cache connected, is stored under the key the lookup used. *)
(***************************************************************************)
TranslateAnswered(r) ==
    /\ req[r].endpoint = "translate"
    /\ req[r].pc = "done"
    /\ req[r].response.status = 200

RequestKey(r) ==
    cache_key(req[r].request.text, req[r].request.src, req[r].request.tgt, MT_PROVIDER)

C30_CachedFlagTellsTheSource ==
    \A r \in Slots :
        TranslateAnswered(r) =>
            LET q == req[r]
            IN  IF q.response.cached
                THEN /\ q.calls = <<>>
                     /\ q.wrote = <<>>
                     /\ Len(q.looked) = 1
                     /\ q.looked[1].key = RequestKey(r)
                     /\ q.looked[1].hit
                     /\ q.looked[1].written
                     /\ q.response.text = q.looked[1].stored
                ELSE /\ Len(q.calls) = 1
                     /\ Len(q.calls[1]) = 1
                     /\ ~q.raised
                     /\ q.translated_batch = <<q.response.text>>
                     /\ q.response.text \in
                           {backend_translation(q.calls[1][1], o, r) : o \in {"ok", "empty"}}
                     /\ redis_client = "Redis" =>
                           /\ Len(q.looked) = 1
                           /\ ~q.looked[1].hit
                           /\ q.looked[1].key = RequestKey(r)
                           /\ Len(q.wrote) = 1
                           /\ q.wrote[1].key = q.looked[1].key
                           /\ q.wrote[1].value = q.response.text

\* a text whose normalized form differs was translated and stored by the
\* first request, and the second request was answered from the cache
C30_Witness ==
    /\ redis_client = "Redis"
    /\ TranslateAnswered(1)
    /\ TranslateAnswered(2)
    /\ ~req[1].response.cached
    /\ req[1].request.text = "aB"
    /\ req[1].calls = <<<<"a B">>>>
    /\ req[2].response.cached
    /\ req[2].response.text = req[1].response.text
====
